---- MODULE Spec2Model ----
(***************************************************************************)
(* A model of grb_analyzer: the optical and X-ray processors, the GRBEvent  *)
(* container and the Fitter constructor.                                    *)
(*                                                                          *)
(* Representation.                                                          *)
(*  - A DataFrame is [cols |-> set of column names, rows |-> sequence of    *)
(*    rows]; a row is a function from the column names to values.           *)
(*  - The file system is the set dirs of existing directories and the       *)
(*    function files from the paths of the existing files to their content. *)
(*    A path is <<directory, file name>>.                                   *)
(*  - A Python str that the code edits (file names, result keys) is a       *)
(*    sequence of tokens, cut so that every occurrence of a pattern the     *)
(*    code searches for is a token of its own.                              *)
(*  - An Optional value is <<>> (None) or <<v>>.                            *)
(*  - Civil times are whole seconds since 2023-02-25T00:00:00 UTC, which is *)
(*    MJD 60000.0.  Spectral indices and energies are fixed-point numbers   *)
(*    with one decimal digit (10 stands for 1.0, 3 for 0.3).                *)
(*  - Real-valued results of transcendental formulas (extinction law,       *)
(*    powers, logarithms) are kept as terms: records naming the formula and *)
(*    its arguments.                                                        *)
(***************************************************************************)
EXTENDS Integers, Sequences, FiniteSets, TLC

VARIABLES
    dirs,         \* the directories that exist
    files,        \* path -> content of the files that exist
    last,         \* the most recent call: operation, arguments, outcome
    fitter,       \* the most recently constructed Fitter (or the failure)
    event         \* the GRBEvent: t0 and lightcurves, band -> (name -> table)

vars == <<dirs, files, last, fitter, event>>

(***************************************************************************)
(* Bounds                                                                   *)
(***************************************************************************)
MaxRows == 2
MaxBreaks == 2

(***************************************************************************)
(* Generic helpers                                                          *)
(***************************************************************************)
None == <<>>
Some(v) == <<v>>
IsNone(o) == Len(o) = 0
Get(o) == o[1]

EmptyMap == [k \in {} |-> 0]
\* dict.get(k, default) and dict.get(k)
DictGet(d, k, default) == IF k \in DOMAIN d THEN d[k] ELSE default
DictLookup(d, k) == IF k \in DOMAIN d THEN Some(d[k]) ELSE None
Put(f, k, v) == [x \in DOMAIN f \cup {k} |-> IF x = k THEN v ELSE f[x]]
Update(f, g) == [x \in DOMAIN f \cup DOMAIN g |-> IF x \in DOMAIN g THEN g[x] ELSE f[x]]

SeqsUpTo(S, n) == UNION {[1..k -> S] : k \in 0..n}
Range(s) == {s[i] : i \in DOMAIN s}
Permutations1(n) == {p \in [1..n -> 1..n] : \A i, j \in 1..n : p[i] = p[j] => i = j}

NoError == [type |-> "none", msg |-> "", names |-> {}]
Error(type, msg, names) == [type |-> type, msg |-> msg, names |-> names]

(***************************************************************************)
(* str.replace and os.path                                                  *)
(***************************************************************************)
RECURSIVE StrReplace(_, _, _)
StrReplace(s, old, new) ==
    IF s = <<>> THEN <<>>
    ELSE (IF Head(s) = old THEN new ELSE <<Head(s)>>) \o StrReplace(Tail(s), old, new)

PathJoin(dir, name) == <<dir, name>>
Basename(path) == path[2]
Dirname(path) == path[1]
PathExists(fs_dirs, dir) == dir \in fs_dirs

(***************************************************************************)
(* DataFrame operations                                                     *)
(***************************************************************************)
DataFrame(cols, rows) == [cols |-> cols, rows |-> rows]

\* df[c] = values: adds or replaces column c; values is a sequence with one
\* entry per row.
AssignColumn(df, c, values) ==
    DataFrame(df.cols \cup {c},
              [i \in DOMAIN df.rows |->
                  [k \in df.cols \cup {c} |-> IF k = c THEN values[i] ELSE df.rows[i][k]]])

\* DataFrame.to_csv(path): an OSError when the directory is missing; the file
\* is replaced as a whole otherwise.
ToCsvFiles(fs_files, path, df) == Put(fs_files, path, df)

IsSortedBy(rows, c) == \A i \in 1..(Len(rows) - 1) : rows[i][c] <= rows[i + 1][c]

\* df.sort_values(by=c).reset_index(drop=True).  The default sort is not
\* stable, so every arrangement of the rows that is ordered by c is possible.
SortValuesUnsorted(df, c) == {df}
SortValues(df, c) ==
    {DataFrame(df.cols, [i \in DOMAIN df.rows |-> df.rows[p[i]]]) :
        p \in {q \in Permutations1(Len(df.rows)) :
                 IsSortedBy([i \in DOMAIN df.rows |-> df.rows[q[i]]], c)}}

(***************************************************************************)
(* utils/flux_converter.py                                                  *)
(***************************************************************************)
\* One element of the element-wise conversion.  The value is kept as a term.
magnitude_to_flux_density(mag_ab, mag_err, lambda_eff_angstrom, a_v) ==
    LET a_lambda == [fn |-> "fm07", wave |-> lambda_eff_angstrom, a_v |-> a_v]
        mag_corrected == [fn |-> "sub", x |-> mag_ab, y |-> a_lambda]
        flux_density_jy == [fn |-> "3631*10^(-x/2.5)", x |-> mag_corrected]
        flux_density_mjy == [fn |-> "x*1000", x |-> flux_density_jy]
        flux_density_err_jy == [fn |-> "x*(ln10/2.5)*y", x |-> flux_density_jy, y |-> mag_err]
        flux_density_err_mjy == [fn |-> "x*1000", x |-> flux_density_err_jy]
    IN  <<flux_density_mjy, flux_density_err_mjy>>

(***************************************************************************)
(* data/optical_processor.py                                                *)
(***************************************************************************)
required_columns_without_filter ==
    {"time", "exposure_s", "mag_ab", "mag_err", "telescope", "lambda_eff_angstrom"}
required_columns ==
    {"time", "exposure_s", "mag_ab", "mag_err", "telescope", "filter", "lambda_eff_angstrom"}

\* (df['time'] - t0).dt.total_seconds() + df['exposure_s'] / 2, for one row.
\* The exposures of the model are even, so the halving is exact.
TMinusT0(time, t0, exposure_s) == (time - t0) + exposure_s \div 2

\* os.path.join(output_dir, os.path.basename(input_file).replace('.csv', '_processed.csv'))
OpticalOutputPath(input_file, output_dir) ==
    PathJoin(output_dir, StrReplace(Basename(input_file), ".csv", <<"_processed.csv">>))

\* The result of one run: the error raised (or none), the dict returned, the
\* paths written in order, the steps taken in order and the file system left.
Outcome(err, result, written, log, fs_dirs, fs_files) ==
    [err |-> err, result |-> result, written |-> written, log |-> log,
     dirs |-> fs_dirs, files |-> fs_files]

\* OpticalProcessor.process: the set of its possible outcomes.
OpticalProcess(fs_dirs, fs_files, input_file, t0, output_dir, a_v) ==
    IF input_file \notin DOMAIN fs_files
    THEN {Outcome(Error("FileNotFoundError", "optical data file not found", {}),
                  EmptyMap, <<>>, <<"read_csv">>, fs_dirs, fs_files)}
    ELSE
    LET df == fs_files[input_file] IN
    IF ~(required_columns \subseteq df.cols)
    THEN {Outcome(Error("ValueError", "input file lacks required columns", required_columns),
                  EmptyMap, <<>>, <<"read_csv", "required_columns">>, fs_dirs, fs_files)}
    ELSE
    LET df_t == AssignColumn(df, "t_minus_t0",
                    [i \in DOMAIN df.rows |->
                        TMinusT0(df.rows[i]["time"], t0, df.rows[i]["exposure_s"])])
        conv == [i \in DOMAIN df.rows |->
                    magnitude_to_flux_density(df.rows[i]["mag_ab"], df.rows[i]["mag_err"],
                                              df.rows[i]["lambda_eff_angstrom"], a_v)]
        df_f == AssignColumn(df_t, "flux_density_mjy", [i \in DOMAIN df.rows |-> conv[i][1]])
        df_e == AssignColumn(df_f, "flux_density_err_mjy", [i \in DOMAIN df.rows |-> conv[i][2]])
        output_filepath == OpticalOutputPath(input_file, output_dir)
        steps == <<"read_csv", "required_columns", "to_datetime", "t_minus_t0",
                   "magnitude_to_flux_density", "sort_values", "to_csv">>
    IN  {IF PathExists(fs_dirs, Dirname(output_filepath))
         THEN Outcome(NoError, Put(EmptyMap, <<"optical_data">>, df_sorted),
                      <<output_filepath>>, steps, fs_dirs,
                      ToCsvFiles(fs_files, output_filepath, df_sorted))
         ELSE Outcome(Error("OSError", "cannot save file into a non-existent directory", {}),
                      EmptyMap, <<>>, steps, fs_dirs, fs_files)
         : df_sorted \in SortValues(df_e, "t_minus_t0")}

(***************************************************************************)
(* utils/time_converter.py                                                  *)
(***************************************************************************)
\* Time(utc_time, format='datetime', scale='utc').mjd.  The trigger times of
\* the model are whole days after the reference instant, so the day count is
\* exact.
utc_to_mjd(utc_time) == 60000 + utc_time \div 86400

(***************************************************************************)
(* data/xray_processor.py                                                   *)
(***************************************************************************)
\* header.get('MJD-OBS')
HeaderGetDefault(header, k) == Some(DictGet(header, k, 60000))
HeaderGet(header, k) == DictLookup(header, k)

\* XrayProcessor._compute_integral_energy; beta is fixed-point, 10 is 1.0.
compute_integral_energy_tolerant(beta, e1, e2) ==
    IF beta \in 9..11
    THEN [fn |-> "log(e2/e1)", e1 |-> e1, e2 |-> e2]
    ELSE [fn |-> "(e2^p-e1^p)/d", e1 |-> e1, e2 |-> e2, p |-> 10 - beta, d |-> 10 - beta]
compute_integral_energy(beta, e1, e2) ==
    IF beta = 10
    THEN [fn |-> "log(e2/e1)", e1 |-> e1, e2 |-> e2]
    ELSE [fn |-> "(e2^p-e1^p)/d", e1 |-> e1, e2 |-> e2, p |-> 10 - beta, d |-> 10 - beta]

\* XrayProcessor._compute_energy_flux_density_and_error
compute_energy_flux_density_and_error(flux, sigma_flux, beta, sigma_beta, e1, e2, e_obs) ==
    LET integral == compute_integral_energy(beta, e1, e2)
        e_term == [fn |-> "e_obs^(-beta)", e_obs |-> e_obs, beta |-> beta]
        f_e == [fn |-> "flux/integral*e_term", flux |-> flux, integral |-> integral,
                e_term |-> e_term]
        df_dF == [fn |-> "e_term/integral", e_term |-> e_term, integral |-> integral]
        df_dbeta == [fn |-> "-log(e_obs)*flux/integral*e_term", e_obs |-> e_obs,
                     flux |-> flux, integral |-> integral, e_term |-> e_term]
        sigma_f_e == [fn |-> "sqrt((a*sa)^2+(b*sb)^2)", a |-> df_dF, sa |-> sigma_flux,
                      b |-> df_dbeta, sb |-> sigma_beta]
    IN  <<f_e, sigma_f_e>>

\* conversion_factor = 1e26 / 241797944177033445; x * conversion_factor
ToMilliJansky(x) == [fn |-> "x*1e26/241797944177033445", x |-> x]

\* delta_seconds + time, with delta_seconds = (mjd_obs - t0_mjd) * 86400.0
TimeFromT0Unshifted(mjd_obs, t0_mjd, time) == time
TimeFromT0(mjd_obs, t0_mjd, time) == (mjd_obs - t0_mjd) * 86400 + time

\* rate * flux_conversion_factor
ScaleByFactor(rate, flux_conversion_factor) == rate * flux_conversion_factor

\* flux_name of the two flux paths
FluxNameAlwaysXRT(is_count_rate_data) == <<"XRT_", "flux">>
FluxName(is_count_rate_data) ==
    IF is_count_rate_data THEN <<"XRT_", "flux">> ELSE <<"XRT_", "flux", "_user">>

\* f"{flux_name}.csv" and f"{flux_name.replace('flux', 'flux_density')}.csv"
FluxFileName(flux_name) == flux_name \o <<".csv">>
DensityFileName(flux_name) == StrReplace(flux_name, "flux", <<"flux_density">>) \o <<".csv">>

\* The key of the flux-density table in the returned dict.
DensityKey == <<"xray_flux_density">>

\* Python truthiness of `if density_conversion_params:`
ParamsTruthy(density_conversion_params) ==
    /\ ~IsNone(density_conversion_params)
    /\ DOMAIN Get(density_conversion_params) # {}

\* The spectral-index branch of step 5: which source is used, beta, sigma_beta
\* and whether the deprecation warning is printed.
SpectralIndex(p) ==
    IF "photon_index" \in DOMAIN p
    THEN [source |-> "photon_index", beta |-> p["photon_index"] - 10,
          sigma_beta |-> DictGet(p, "sigma_photon_index", 0), warn |-> FALSE]
    ELSE IF "beta_X" \in DOMAIN p
    THEN [source |-> "beta_X", beta |-> p["beta_X"],
          sigma_beta |-> DictGet(p, "sigma_beta_X", 0), warn |-> TRUE]
    ELSE [source |-> "none", beta |-> 0, sigma_beta |-> 0, warn |-> FALSE]

FluxColumns == {"time_from_t0_s", "time_err_s", "flux_erg_cm2_s", "flux_err_erg_cm2_s"}
DensityColumns == {"time_from_t0_s", "time_err_s", "flux_density_mJy", "flux_density_err_mJy"}

\* XrayProcessor.process: its outcome.
XrayProcess(fs_dirs, fs_files, fits_file, t0, output_dir, flux_conversion_factor, is_count_rate_data, density_conversion_params) ==
    LET made == ~PathExists(fs_dirs, output_dir)
        dirs1 == IF made THEN fs_dirs \cup {output_dir} ELSE fs_dirs
        log1 == (IF made THEN <<"makedirs">> ELSE <<>>) \o <<"fits.open">>
    IN
    IF fits_file \notin DOMAIN fs_files
    THEN Outcome(Error("FileNotFoundError", "FITS file not found", {}),
                 EmptyMap, <<>>, log1, dirs1, fs_files)
    ELSE
    LET hdu == fs_files[fits_file]
        data == hdu.data
        mjd_obs == HeaderGet(hdu.header, "MJD-OBS")
        log2 == log1 \o <<"mjd_obs_check">>
    IN
    IF IsNone(mjd_obs)
    THEN Outcome(Error("ValueError", "FITS header lacks MJD-OBS", {"MJD-OBS"}),
                 EmptyMap, <<>>, log2, dirs1, fs_files)
    ELSE
    LET t0_mjd == utc_to_mjd(t0)
        time_from_t0 == [i \in DOMAIN data |-> TimeFromT0(Get(mjd_obs), t0_mjd, data[i].TIME)]
        time_err == [i \in DOMAIN data |-> data[i].TIME_ERR]
        log3 == log2 \o <<"time_from_t0", "flux">>
    IN
    IF is_count_rate_data /\ IsNone(flux_conversion_factor)
    THEN Outcome(Error("ValueError", "count-rate input needs flux_conversion_factor", {}),
                 EmptyMap, <<>>, log3, dirs1, fs_files)
    ELSE
    LET flux == [i \in DOMAIN data |->
                    IF is_count_rate_data
                    THEN ScaleByFactor(data[i].RATE, Get(flux_conversion_factor))
                    ELSE data[i].RATE]
        flux_err == [i \in DOMAIN data |->
                    IF is_count_rate_data
                    THEN ScaleByFactor(data[i].ERROR, Get(flux_conversion_factor))
                    ELSE data[i].ERROR]
        flux_name == FluxName(is_count_rate_data)
        df_flux == DataFrame(FluxColumns,
                       [i \in DOMAIN data |->
                           [time_from_t0_s |-> time_from_t0[i], time_err_s |-> time_err[i],
                            flux_erg_cm2_s |-> flux[i], flux_err_erg_cm2_s |-> flux_err[i]]])
        output_flux_path == PathJoin(output_dir, FluxFileName(flux_name))
        log4 == log3 \o <<"to_csv_flux">>
    IN
    IF ~PathExists(dirs1, Dirname(output_flux_path))
    THEN Outcome(Error("OSError", "cannot save file into a non-existent directory", {}),
                 EmptyMap, <<>>, log4, dirs1, fs_files)
    ELSE
    LET files1 == ToCsvFiles(fs_files, output_flux_path, df_flux)
        processed_data == Put(EmptyMap, flux_name, df_flux)
    IN
    IF ~ParamsTruthy(density_conversion_params)
    THEN Outcome(NoError, processed_data, <<output_flux_path>>, log4, dirs1, files1)
    ELSE
    LET p == Get(density_conversion_params)
        idx == SpectralIndex(p)
        log5 == log4 \o <<"spectral_index">>
                     \o (IF idx.warn THEN <<"warn_beta_X_deprecated">> ELSE <<>>)
    IN
    IF idx.source = "none"
    THEN Outcome(Error("ValueError", "no usable spectral index", {"photon_index", "beta_X"}),
                 EmptyMap, <<output_flux_path>>, log5, dirs1, files1)
    ELSE
    LET e1 == DictGet(p, "E1", 3)
        e2 == DictGet(p, "E2", 100)
        e_obs == DictGet(p, "E_obs", 10)
        fd == [i \in DOMAIN data |->
                  compute_energy_flux_density_and_error(
                      flux[i], flux_err[i], idx.beta, idx.sigma_beta, e1, e2, e_obs)]
        df_density == DataFrame(DensityColumns,
                       [i \in DOMAIN data |->
                           [time_from_t0_s |-> time_from_t0[i], time_err_s |-> time_err[i],
                            flux_density_mJy |-> ToMilliJansky(fd[i][1]),
                            flux_density_err_mJy |-> ToMilliJansky(fd[i][2])]])
        output_density_path == PathJoin(output_dir, DensityFileName(flux_name))
        log6 == log5 \o <<"flux_density", "to_csv_density">>
    IN
    Outcome(NoError, Put(processed_data, DensityKey, df_density),
            <<output_flux_path, output_density_path>>, log6, dirs1,
            ToCsvFiles(files1, output_density_path, df_density))

(***************************************************************************)
(* Python and numpy arithmetic, as far as analysis/models.py uses it        *)
(***************************************************************************)
\* A number is a Python scalar or a numpy array, of integer or floating
\* type.  Its value is the term that computes it; n is the value of an
\* integer scalar, which decides whether an integer power is allowed.  A
\* raised exception takes the place of the number and passes through every
\* later operation, the left operand first, as Python evaluates.
Term(op, args) == [op |-> op, args |-> args]
Val(kind, dtype, n, term) == [kind |-> kind, dtype |-> dtype, n |-> n, term |-> term]
PyInt(n) == Val("scalar", "int", n, Term(ToString(n), <<>>))
PyFloat(name) == Val("scalar", "float", 0, Term(name, <<>>))
NdArray(dtype, name) == Val("array", dtype, 0, Term(name, <<>>))
Raise(type) == Val("raise", type, 0, Term("raise", <<>>))
IsRaise(a) == a.kind = "raise"

ResultKind(a, b) == IF "array" \in {a.kind, b.kind} THEN "array" ELSE "scalar"
ResultType(a, b) == IF a.dtype = "int" /\ b.dtype = "int" THEN "int" ELSE "float"

\* -a
Neg(a) ==
    IF IsRaise(a) THEN a ELSE Val(a.kind, a.dtype, 0 - a.n, Term("neg", <<a.term>>))

\* a + b, a - b, a * b
Add(a, b) ==
    IF IsRaise(a) THEN a ELSE IF IsRaise(b) THEN b
    ELSE Val(ResultKind(a, b), ResultType(a, b), a.n + b.n, Term("+", <<a.term, b.term>>))
Sub(a, b) ==
    IF IsRaise(a) THEN a ELSE IF IsRaise(b) THEN b
    ELSE Val(ResultKind(a, b), ResultType(a, b), a.n - b.n, Term("-", <<a.term, b.term>>))
Mul(a, b) ==
    IF IsRaise(a) THEN a ELSE IF IsRaise(b) THEN b
    ELSE Val(ResultKind(a, b), ResultType(a, b), a.n * b.n, Term("*", <<a.term, b.term>>))

\* a / b: true division, of floating type whatever the operands.  The
\* divisors of the model are positive.
Div(a, b) ==
    IF IsRaise(a) THEN a ELSE IF IsRaise(b) THEN b
    ELSE Val(ResultKind(a, b), "float", 0, Term("/", <<a.term, b.term>>))

\* a ** b.  numpy refuses a negative integer power of an integer array;
\* Python gives a float for a negative integer power of an int.
Pow(a, b) ==
    IF IsRaise(a) THEN a ELSE IF IsRaise(b) THEN b
    ELSE IF a.kind = "array" /\ a.dtype = "int" /\ b.dtype = "int" /\ b.n < 0
    THEN Raise("ValueError")
    ELSE Val(ResultKind(a, b),
             IF ResultType(a, b) = "int" /\ b.n >= 0 THEN "int" ELSE "float",
             0, Term("**", <<a.term, b.term>>))

\* a *= b.  On a numpy array the product is written into a, which numpy
\* refuses when it would have to cast floating values to an integer array;
\* on a Python scalar it is a = a * b.
IMul(a, b) ==
    IF IsRaise(a) THEN a ELSE IF IsRaise(b) THEN b
    ELSE IF a.kind = "array"
    THEN IF a.dtype = "int" /\ b.dtype = "float"
         THEN Raise("UFuncTypeError")
         ELSE Val("array", a.dtype, 0, Term("*", <<a.term, b.term>>))
    ELSE Mul(a, b)

\* What a function that computes v gives its caller.
Returned(v) ==
    IF IsRaise(v)
    THEN [err |-> Error(v.dtype, "raised by an arithmetic operation", {}), ret |-> None]
    ELSE [err |-> NoError, ret |-> Some(v)]

(***************************************************************************)
(* analysis/models.py                                                       *)
(***************************************************************************)
\* broken_power_law(x, norm, t_break, alpha1, alpha2, delta)
broken_power_law(x, norm, t_break, alpha1, alpha2, delta) ==
    LET term == Add(PyInt(1), Pow(Div(x, t_break), Div(PyInt(1), delta)))
        result == Mul(Mul(norm, Pow(x, Neg(alpha1))),
                      Pow(term, Mul(Neg(delta), Sub(alpha2, alpha1))))
    IN  Returned(result)

\* The loop of multi_sbpl from break i on: one in-place multiplication for
\* every break.
RECURSIVE MultiSbplLoop(_, _, _, _, _, _)
MultiSbplLoop(x, breakpoints, alphas, deltas, i, result) ==
    IF i > Len(breakpoints) THEN result
    ELSE LET term == Add(PyInt(1), Pow(Div(x, breakpoints[i]), Div(PyInt(1), deltas[i])))
         IN  MultiSbplLoop(x, breakpoints, alphas, deltas, i + 1,
                 IMul(result, Pow(term, Mul(Neg(deltas[i]), Sub(alphas[i + 1], alphas[i])))))

AlphasLengthError ==
    Error("ValueError", "alphas must have one entry more than breakpoints", {"alphas"})
DeltasLengthError ==
    Error("ValueError", "deltas must have as many entries as breakpoints", {"deltas"})

\* multi_sbpl(x, norm, breakpoints, alphas, deltas)
multi_sbpl_deltas_first(x, norm, breakpoints, alphas, deltas) ==
    IF Len(deltas) # Len(breakpoints) THEN [err |-> DeltasLengthError, ret |-> None]
    ELSE IF Len(alphas) # Len(breakpoints) + 1 THEN [err |-> AlphasLengthError, ret |-> None]
    ELSE Returned(MultiSbplLoop(x, breakpoints, alphas, deltas, 1,
                                Mul(norm, Pow(x, Neg(alphas[1])))))
multi_sbpl(x, norm, breakpoints, alphas, deltas) ==
    IF Len(alphas) # Len(breakpoints) + 1 THEN [err |-> AlphasLengthError, ret |-> None]
    ELSE IF Len(deltas) # Len(breakpoints) THEN [err |-> DeltasLengthError, ret |-> None]
    ELSE Returned(MultiSbplLoop(x, breakpoints, alphas, deltas, 1,
                                Mul(norm, Pow(x, Neg(alphas[1])))))

(***************************************************************************)
(* analysis/fitting.py                                                      *)
(***************************************************************************)
\* The columns Fitter.__init__ reads, in the order it reads them.
FitterColumns == <<"time_from_t0_s", "flux_density_mjy", "flux_density_err_mjy">>

Column(data, c) == [i \in DOMAIN data.rows |-> data.rows[i][c]]

\* Fitter.__init__: the object built, or the KeyError of the first column
\* that data does not have.
FitterNew(data, model_function) ==
    LET missing == {i \in DOMAIN FitterColumns : FitterColumns[i] \notin data.cols} IN
    IF missing # {}
    THEN [err |-> Error("KeyError", "no such column",
                        {FitterColumns[CHOOSE i \in missing : \A j \in missing : i <= j]}),
          cols |-> data.cols, x |-> <<>>, y |-> <<>>, yerr |-> <<>>,
          model_function |-> model_function]
    ELSE [err |-> NoError,
          cols |-> data.cols,
          x |-> Column(data, FitterColumns[1]),
          y |-> Column(data, FitterColumns[2]),
          yerr |-> Column(data, FitterColumns[3]),
          model_function |-> model_function]

NoFitter ==
    [err |-> Error("unset", "", {}), cols |-> {}, x |-> <<>>, y |-> <<>>, yerr |-> <<>>,
     model_function |-> ""]

\* GenericGaussianLikelihood.__init__: the parameter mapping starts empty.
GenericGaussianLikelihood(x, y, yerr, model_function) ==
    [parameters |-> EmptyMap, x |-> x, y |-> y, yerr |-> yerr,
     model_function |-> model_function]

Restrict(f, keys) == [k \in DOMAIN f \cap keys |-> f[k]]

\* One step of a run: what was called and with which arguments.
Step(name, args) == [step |-> name, args |-> args]
StepNames(log) == [i \in DOMAIN log |-> log[i].step]

\* GenericGaussianLikelihood.log_likelihood: the calls of the model function
\* it makes, the value it returns (a term) and the mapping it leaves.
LogLikelihoodResult(self, model_params, log_f) ==
    LET model == [fn |-> self.model_function, x |-> self.x, kwargs |-> model_params]
        res == [fn |-> "sub", x |-> self.y, y |-> model]
        sigma2 == [fn |-> "yerr^2+model^2*exp(2*log_f)", yerr |-> self.yerr,
                   model |-> model, log_f |-> log_f]
        loglike == [fn |-> "-0.5*sum(res^2/sigma2+log(2*pi*sigma2))",
                    res |-> res, sigma2 |-> sigma2]
    IN  [calls |-> <<Step("model_function", [x |-> self.x, kwargs |-> model_params])>>,
         ret |-> loglike, parameters |-> self.parameters]
log_likelihood_unfiltered(self) ==
    LogLikelihoodResult(self, self.parameters, DictGet(self.parameters, "log_f", "-10.0"))
log_likelihood(self) ==
    LogLikelihoodResult(self, Restrict(self.parameters, DOMAIN self.parameters \ {"log_f"}),
                        DictGet(self.parameters, "log_f", "-10.0"))

\* bilby.run_sampler is external: it raises, or it returns a result whose
\* parameter_labels are the LaTeX labels of the priors, in some order.
SamplerError == Error("SamplerError", "raised by the external sampler", {})
SamplerRaises == [raised |-> TRUE, parameter_labels |-> <<>>]
SamplerReturns(labels) == [raised |-> FALSE, parameter_labels |-> labels]
SamplerOutcomes(priors) ==
    {SamplerRaises} \cup
    {SamplerReturns(s) :
        s \in {q \in [1..Cardinality(DOMAIN priors) -> {priors[k].latex_label : k \in DOMAIN priors}] :
                 Range(q) = {priors[k].latex_label : k \in DOMAIN priors}}}

\* The keywords run_fit passes to bilby.run_sampler by name.
SamplerKeywords == {"likelihood", "priors", "outdir", "label", "sampler"}

CornerPath(outdir, label) == PathJoin(outdir, <<label, "_corner.pdf">>)

\* Fitter.run_fit(priors, label, outdir, sampler, **sampler_kwargs), with the
\* outcome of the external sampler it meets.
RunFit(self, fs_dirs, fs_files, priors, label, outdir, sampler, sampler_kwargs, sampler_outcome) ==
    LET seeded == <<Step("seed", [value |-> 1234])>>
        made == IF PathExists(fs_dirs, outdir) THEN <<>>
                ELSE <<Step("makedirs", [path |-> outdir])>>
        dirs1 == fs_dirs \cup {outdir}
        likelihood == GenericGaussianLikelihood(self.x, self.y, self.yerr, self.model_function)
        sampled == <<Step("run_sampler",
                          [likelihood |-> likelihood, priors |-> priors, outdir |-> outdir,
                           label |-> label, sampler |-> sampler, kwargs |-> sampler_kwargs])>>
        labels == sampler_outcome.parameter_labels
        unknown == {i \in DOMAIN labels : labels[i] \notin DOMAIN priors}
        plotted == <<Step("plot_corner",
                          [filename |-> CornerPath(outdir, label),
                           labels |-> [i \in DOMAIN labels |-> priors[labels[i]].latex_label]])>>
    IN  IF DOMAIN sampler_kwargs \cap SamplerKeywords # {}
        THEN [out |-> Outcome(Error("TypeError", "got multiple values for keyword argument",
                                    DOMAIN sampler_kwargs \cap SamplerKeywords),
                              EmptyMap, <<>>, seeded \o made, dirs1, fs_files),
              ret |-> None]
        ELSE IF sampler_outcome.raised
        THEN [out |-> Outcome(SamplerError, EmptyMap, <<>>, seeded \o made \o sampled,
                              dirs1, fs_files),
              ret |-> None]
        ELSE IF unknown # {}
        THEN [out |-> Outcome(Error("KeyError", "no such prior",
                                    {labels[CHOOSE i \in unknown : \A j \in unknown : i <= j]}),
                              EmptyMap, <<>>, seeded \o made \o sampled, dirs1, fs_files),
              ret |-> None]
        ELSE [out |-> Outcome(NoError, EmptyMap, <<CornerPath(outdir, label)>>,
                              seeded \o made \o sampled \o plotted, dirs1,
                              Put(fs_files, CornerPath(outdir, label), "corner plot")),
              ret |-> Some(sampler_outcome)]

(***************************************************************************)
(* core/grb_event.py                                                        *)
(***************************************************************************)
\* The parameters of OpticalProcessor.process that have no default, and the
\* keywords GRBEvent.process_optical_data passes to it.
OpticalProcessParameters == {"input_file", "t0", "output_dir", "a_v"}
EventOpticalKeywords(self, input_file, output_dir) ==
    [input_file |-> input_file, t0 |-> self.t0, output_dir |-> output_dir]

\* self.lightcurves after `if band not in ...: ... = {}` and `.update(d)`.
StoreLightcurvesReplacingBand(lc, band, processed_data_dict) ==
    Put(lc, band, processed_data_dict)
StoreLightcurves(lc, band, processed_data_dict) ==
    Put(lc, band, Update(DictGet(lc, band, EmptyMap), processed_data_dict))

\* GRBEvent.process_optical_data: the possible outcomes of the processor
\* call, each with the container it leaves.
EventProcessOptical(self, fs_dirs, fs_files, input_file, output_dir) ==
    LET kw == EventOpticalKeywords(self, input_file, output_dir) IN
    IF ~(OpticalProcessParameters \subseteq DOMAIN kw)
    THEN {[out |-> Outcome(Error("TypeError", "process() missing required argument",
                                 OpticalProcessParameters \ DOMAIN kw),
                           EmptyMap, <<>>, <<"call_process">>, fs_dirs, fs_files),
           lightcurves |-> self.lightcurves]}
    ELSE {[out |-> o,
           lightcurves |-> IF o.err = NoError
                           THEN StoreLightcurves(self.lightcurves, "optical", o.result)
                           ELSE self.lightcurves] :
            o \in OpticalProcess(fs_dirs, fs_files, kw["input_file"], kw["t0"],
                                 kw["output_dir"], kw["a_v"])}

\* GRBEvent.process_xray_data
EventProcessXray(self, fs_dirs, fs_files, fits_file, output_dir, flux_conversion_factor, density_conversion_params) ==
    LET o == XrayProcess(fs_dirs, fs_files, fits_file, self.t0, output_dir,
                         flux_conversion_factor, TRUE, density_conversion_params)
    IN  [out |-> o,
         lightcurves |-> IF o.err = NoError
                         THEN StoreLightcurves(self.lightcurves, "xray", o.result)
                         ELSE self.lightcurves]

\* GRBEvent.get_lightcurve: self.lightcurves.get(band, {}).get(name)
get_lightcurve(self, band, name) ==
    DictLookup(DictGet(self.lightcurves, band, EmptyMap), name)

(***************************************************************************)
(* The inputs of the model                                                  *)
(***************************************************************************)
Dirs == {"in", "out"}
T0s == {0, 86400}
AVs == {8}
ModelFunctions == {"simple_power_law", "broken_power_law"}

\* Optical input: file names, rows and tables.
OpticalNames == {<<"obs", ".csv">>, <<"obs", ".txt">>}
OpticalPaths == {PathJoin("in", n) : n \in OpticalNames}
OpticalRow(time, exposure_s, mag_ab) ==
    [time |-> time, exposure_s |-> exposure_s, mag_ab |-> mag_ab, mag_err |-> 1,
     telescope |-> "T1", filter |-> "R", lambda_eff_angstrom |-> 6500]
OpticalRows == {OpticalRow(t, e, m) : t \in {60, 120}, e \in {0, 120}, m \in {20, 21}}
ValidOpticalTables ==
    {DataFrame(required_columns, rows) : rows \in SeqsUpTo(OpticalRows, MaxRows)}
DropColumns(df, cs) ==
    DataFrame(df.cols \ cs,
              [i \in DOMAIN df.rows |-> [k \in df.cols \ cs |-> df.rows[i][k]]])
InvalidOpticalTables ==
    {DropColumns(DataFrame(required_columns, rows), cs) :
        rows \in SeqsUpTo({OpticalRow(60, 120, 20)}, 1),
        cs \in {{c} : c \in required_columns} \cup {{"mag_err", "lambda_eff_angstrom"}}}

\* X-ray input: file names, samples and binary tables.
FitsNames == {<<"xrt", ".fits">>, <<"none", ".fits">>}
FitsPaths == {PathJoin("in", n) : n \in FitsNames}
Sample(time, rate) == [TIME |-> time, TIME_ERR |-> 10, RATE |-> rate, ERROR |-> 1]
Samples == {Sample(100, 3), Sample(200, 5)}
Headers == {EmptyMap, "MJD-OBS" :> 60001}
XrayOutDirs == {"out"}
FitsTables ==
    {[data |-> d, header |-> h] : d \in SeqsUpTo(Samples, MaxRows), h \in Headers}
Factors == {None, Some(2)}
DensityParams ==
    {None, Some(EmptyMap),
     Some([photon_index |-> 20]),
     Some([beta_X |-> 11, sigma_beta_X |-> 1]),
     Some([photon_index |-> 15, beta_X |-> 10]),
     Some([E1 |-> 5, E2 |-> 20, E_obs |-> 10])}

\* Decay models: the abscissa, the normalisation and the entries of the lists.
Xs == {NdArray("float", "x"), NdArray("int", "x"), PyFloat("x")}
Norms == {PyInt(1), PyFloat("norm")}
BreakValues == {PyFloat("t_b")}
AlphaValues == {PyInt(0), PyInt(2), PyFloat("alpha")}
DeltaValues == {PyFloat("delta")}
ModelArguments ==
    [x : Xs, norm : Norms, breakpoints : SeqsUpTo(BreakValues, MaxBreaks),
     alphas : SeqsUpTo(AlphaValues, MaxBreaks + 1),
     deltas : SeqsUpTo(DeltaValues, MaxBreaks + 1)]

\* Fitting: the tables a Fitter is built from, the parameter mappings the
\* sampler evaluates, the priors and the arguments of run_fit.
FitRow(t, f) == [time_from_t0_s |-> t, flux_density_mjy |-> f, flux_density_err_mjy |-> 1]
FitRows == {FitRow(100, 9)}
FitTables == {DataFrame(Range(FitterColumns), rows) : rows \in SeqsUpTo(FitRows, MaxRows)}
ParameterMaps ==
    UNION {[keys -> {"1.5", "-2.0"}] : keys \in SUBSET {"norm", "alpha", "log_f"}}
Prior(latex_label) == [latex_label |-> latex_label]
PriorDicts ==
    {[alpha |-> Prior("alpha")], [alpha |-> Prior("$\\alpha$")],
     [norm |-> Prior("norm"), alpha |-> Prior("alpha")]}
FitOutDirs == {"outdir", "out"}
Samplers == {"pymultinest", "dynesty"}
SamplerKwargs == {EmptyMap, [nlive |-> "500"], [likelihood |-> "other"]}

(***************************************************************************)
(* State machine                                                            *)
(***************************************************************************)
NoCall ==
    [op |-> "none", args |-> EmptyMap, pre |-> EmptyMap, err |-> NoError,
     result |-> EmptyMap, written |-> <<>>, log |-> <<>>, ret |-> None]

\* The record of a call: what it was given, the state it started in and its
\* outcome.
Call(op, args, pre, out, ret) ==
    [op |-> op, args |-> args, pre |-> pre, err |-> out.err, result |-> out.result,
     written |-> out.written, log |-> out.log, ret |-> ret]

NewEvent(t0) == [t0 |-> t0, lightcurves |-> EmptyMap]

InitOptical ==
    /\ dirs = {"in"}
    /\ \E n \in OpticalNames, df \in ValidOpticalTables \cup InvalidOpticalTables :
           files = (PathJoin("in", n) :> df)
    /\ last = NoCall
    /\ fitter = NoFitter
    /\ event = NewEvent(0)

InitXray ==
    /\ dirs = {"in"}
    /\ \E hdu \in FitsTables : files = (PathJoin("in", <<"xrt", ".fits">>) :> hdu)
    /\ last = NoCall
    /\ fitter = NoFitter
    /\ \E t0 \in T0s : event = NewEvent(t0)

\* OpticalProcessor.process(input_file, t0, output_dir, a_v)
OpticalCall ==
    \E input_file \in OpticalPaths, t0 \in T0s, output_dir \in Dirs, a_v \in AVs :
        \E o \in OpticalProcess(dirs, files, input_file, t0, output_dir, a_v) :
            /\ dirs' = o.dirs
            /\ files' = o.files
            /\ last' = Call("OpticalProcessor.process",
                            [input_file |-> input_file, t0 |-> t0,
                             output_dir |-> output_dir, a_v |-> a_v],
                            [dirs |-> dirs, input |-> DictLookup(files, input_file)], o, None)
            /\ UNCHANGED <<fitter, event>>

\* XrayProcessor.process(fits_file, t0, output_dir, flux_conversion_factor,
\*                       is_count_rate_data, density_conversion_params), called
\* with the trigger time of the event under analysis.
XrayCall ==
    \E fits_file \in FitsPaths, t0 \in {event.t0}, output_dir \in XrayOutDirs, factor \in Factors,
       is_count_rate_data \in BOOLEAN, params \in DensityParams :
        LET o == XrayProcess(dirs, files, fits_file, t0, output_dir, factor,
                             is_count_rate_data, params)
        IN  /\ dirs' = o.dirs
            /\ files' = o.files
            /\ last' = Call("XrayProcessor.process",
                            [fits_file |-> fits_file, t0 |-> t0, output_dir |-> output_dir,
                             flux_conversion_factor |-> factor,
                             is_count_rate_data |-> is_count_rate_data,
                             density_conversion_params |-> params],
                            [dirs |-> dirs, input |-> DictLookup(files, fits_file)], o, None)
            /\ UNCHANGED <<fitter, event>>

\* Fitter(data, model_function) on a table the last processor call returned.
FitterCall ==
    /\ last.op \in {"OpticalProcessor.process", "XrayProcessor.process"}
    /\ last.err = NoError
    /\ \E k \in DOMAIN last.result, m \in ModelFunctions :
           fitter' = FitterNew(last.result[k], m)
    /\ UNCHANGED <<dirs, files, last, event>>

\* The event under analysis, with an optical table and an X-ray binary table
\* on disk.
InitEvent ==
    /\ dirs = {"in"}
    /\ \E df \in {DataFrame(required_columns, <<OpticalRow(60, 120, 20)>>)}, hdu \in FitsTables :
           files = (PathJoin("in", <<"obs", ".csv">>) :> df) @@
                   (PathJoin("in", <<"xrt", ".fits">>) :> hdu)
    /\ last = NoCall
    /\ fitter = NoFitter
    /\ \E t0 \in T0s : event = NewEvent(t0)

\* GRBEvent.process_optical_data(input_file, output_dir)
EventOpticalCall ==
    \E input_file \in OpticalPaths, output_dir \in XrayOutDirs :
        \E r \in EventProcessOptical(event, dirs, files, input_file, output_dir) :
            /\ dirs' = r.out.dirs
            /\ files' = r.out.files
            /\ event' = [event EXCEPT !.lightcurves = r.lightcurves]
            /\ last' = Call("GRBEvent.process_optical_data",
                            [input_file |-> input_file, output_dir |-> output_dir],
                            [dirs |-> dirs, input |-> DictLookup(files, input_file),
                             lightcurves |-> event.lightcurves], r.out, None)
            /\ UNCHANGED fitter

\* GRBEvent.process_xray_data(fits_file, output_dir, flux_conversion_factor,
\*                            density_conversion_params)
EventXrayCall ==
    \E fits_file \in FitsPaths, output_dir \in XrayOutDirs, factor \in Factors,
       params \in DensityParams :
        LET r == EventProcessXray(event, dirs, files, fits_file, output_dir, factor, params)
        IN  /\ dirs' = r.out.dirs
            /\ files' = r.out.files
            /\ event' = [event EXCEPT !.lightcurves = r.lightcurves]
            /\ last' = Call("GRBEvent.process_xray_data",
                            [fits_file |-> fits_file, output_dir |-> output_dir,
                             flux_conversion_factor |-> factor,
                             density_conversion_params |-> params],
                            [dirs |-> dirs, input |-> DictLookup(files, fits_file),
                             lightcurves |-> event.lightcurves], r.out, None)
            /\ UNCHANGED fitter

\* GRBEvent.get_lightcurve(band, name)
Bands == {"optical", "xray", "radio"}
CurveNames == {<<"optical_data">>, <<"XRT_", "flux">>, <<"xray_flux_density">>, <<"XRT_", "flux_density">>}
GetLightcurveCall ==
    \E band \in Bands, name \in CurveNames :
        /\ last' = Call("GRBEvent.get_lightcurve", [band |-> band, name |-> name],
                        [dirs |-> dirs, input |-> None, lightcurves |-> event.lightcurves],
                        Outcome(NoError, EmptyMap, <<>>, <<>>, dirs, files),
                        get_lightcurve(event, band, name))
        /\ UNCHANGED <<dirs, files, fitter, event>>

\* Fitter(data, model_function) on a table the event holds.
FitterFromEvent ==
    /\ \E band \in DOMAIN event.lightcurves, m \in ModelFunctions :
           \E name \in DOMAIN event.lightcurves[band] :
               fitter' = FitterNew(event.lightcurves[band][name], m)
    /\ UNCHANGED <<dirs, files, last, event>>

NextOptical == OpticalCall \/ FitterCall
NextXray == XrayCall

SpecOptical == InitOptical /\ [][NextOptical]_vars
NextEvent == EventOpticalCall \/ EventXrayCall \/ GetLightcurveCall \/ FitterFromEvent

SpecXray == InitXray /\ [][NextXray]_vars
SpecEvent == InitEvent /\ [][NextEvent]_vars

\* The decay models as pure functions: the arguments are drawn at the start
\* and each function is applied to them once.
InitModels ==
    /\ dirs = {}
    /\ files = EmptyMap
    /\ \E a \in ModelArguments : last = [NoCall EXCEPT !.args = a]
    /\ fitter = NoFitter
    /\ event = NewEvent(0)

PureCall(op, args, r) ==
    Call(op, args, EmptyMap, Outcome(r.err, EmptyMap, <<>>, <<>>, dirs, files), r.ret)

\* multi_sbpl(x, norm, breakpoints, alphas, deltas)
MultiSbplCall ==
    /\ last.op = "none"
    /\ last' = PureCall("multi_sbpl", last.args,
                        multi_sbpl(last.args.x, last.args.norm, last.args.breakpoints,
                                   last.args.alphas, last.args.deltas))
    /\ UNCHANGED <<dirs, files, fitter, event>>

SingleBreak(a) ==
    Len(a.breakpoints) = 1 /\ Len(a.alphas) = 2 /\ Len(a.deltas) = 1

\* broken_power_law(x, norm, t_break, alpha1, alpha2, delta)
BrokenPowerLawCall ==
    /\ last.op = "none"
    /\ SingleBreak(last.args)
    /\ last' = PureCall("broken_power_law", last.args,
                        broken_power_law(last.args.x, last.args.norm,
                                         last.args.breakpoints[1], last.args.alphas[1],
                                         last.args.alphas[2], last.args.deltas[1]))
    /\ UNCHANGED <<dirs, files, fitter, event>>

NextModels == MultiSbplCall \/ BrokenPowerLawCall
SpecModels == InitModels /\ [][NextModels]_vars

\* A Fitter built from a table with the three columns; the sampler and its
\* evaluations of the likelihood.
InitFit ==
    /\ dirs \in {{}, {"outdir"}}
    /\ files = EmptyMap
    /\ last = NoCall
    /\ \E data \in FitTables, m \in ModelFunctions : fitter = FitterNew(data, m)
    /\ event = NewEvent(0)

\* GenericGaussianLikelihood.log_likelihood, after the sampler has set the
\* parameter mapping.  The call record holds the model calls as its log and
\* the mapping after the evaluation as its result.
LogLikelihoodCall ==
    \E parameters \in ParameterMaps :
        LET self == [GenericGaussianLikelihood(fitter.x, fitter.y, fitter.yerr,
                                               fitter.model_function)
                        EXCEPT !.parameters = parameters]
            r == log_likelihood(self)
        IN  /\ last' = Call("GenericGaussianLikelihood.log_likelihood",
                            [parameters |-> parameters], [dirs |-> dirs, input |-> None],
                            Outcome(NoError, r.parameters, <<>>, r.calls, dirs, files),
                            Some(r.ret))
            /\ UNCHANGED <<dirs, files, fitter, event>>

\* Fitter.run_fit(priors, label, outdir, sampler, **sampler_kwargs)
RunFitCall ==
    \E priors \in PriorDicts, label \in {"fit"}, outdir \in FitOutDirs, sampler \in Samplers,
       sampler_kwargs \in SamplerKwargs :
        \E sampler_outcome \in SamplerOutcomes(priors) :
            LET r == RunFit(fitter, dirs, files, priors, label, outdir, sampler,
                            sampler_kwargs, sampler_outcome)
            IN  /\ dirs' = r.out.dirs
                /\ files' = r.out.files
                /\ last' = Call("Fitter.run_fit",
                                [priors |-> priors, label |-> label, outdir |-> outdir,
                                 sampler |-> sampler, sampler_kwargs |-> sampler_kwargs,
                                 sampler_outcome |-> sampler_outcome],
                                [dirs |-> dirs, input |-> None], r.out, r.ret)
                /\ UNCHANGED <<fitter, event>>

NextFit == LogLikelihoodCall \/ RunFitCall
SpecFit == InitFit /\ [][NextFit]_vars

(***************************************************************************)
(* Properties                                                               *)
(***************************************************************************)
IsOptical == last.op = "OpticalProcessor.process"
IsXray == last.op = "XrayProcessor.process"
Succeeded == last.err.type = "none"
InputExisted == ~IsNone(last.pre.input)
InputTable == Get(last.pre.input)
ValidOpticalInput ==
    /\ InputExisted
    /\ \A c \in {"time", "exposure_s", "mag_ab", "mag_err", "telescope", "filter",
                  "lambda_eff_angstrom"} : c \in InputTable.cols
Occurrences(seq, x) == Cardinality({i \in DOMAIN seq : seq[i] = x})

\* C1: every table a processor returns can be given to the Fitter
\* constructor: whenever a Fitter has been constructed from such a table, the
\* construction succeeded (the table has time_from_t0_s, flux_density_mjy and
\* flux_density_err_mjy).
C1_FitterConsumesProcessorOutput ==
    fitter.err.type # "unset" =>
        /\ fitter.err.type = "none"
        /\ {"time_from_t0_s", "flux_density_mjy", "flux_density_err_mjy"} \subseteq fitter.cols

\* C2: a call of XrayProcessor.process that ends in a configuration error
\* (ValueError) has written no table file.
C2_ConfigErrorsBeforeOutput ==
    (IsXray /\ last.err.type = "ValueError") => last.written = <<>>

\* C3: a processor call on valid input ends with the output directory
\* existing and without an error of the write, also when the directory was
\* missing before the call.
C3_OutputDirEnsured ==
    (IsOptical /\ ValidOpticalInput) =>
        /\ last.args.output_dir \in dirs
        /\ Succeeded
        /\ \A i \in DOMAIN last.written : Dirname(last.written[i]) \in dirs

\* C4: GRBEvent.process_optical_data on an existing input file with all the
\* required columns completes, and afterwards lightcurves['optical'] holds
\* every key the processor returned and get_lightcurve('optical',
\* 'optical_data') is a table, not None.
C4_EventLoadsOptical ==
    (last.op = "GRBEvent.process_optical_data" /\ ValidOpticalInput) =>
        /\ Succeeded
        /\ "optical" \in DOMAIN event.lightcurves
        /\ ~IsNone(get_lightcurve(event, "optical", <<"optical_data">>))

\* C5: the table OpticalProcessor.process returns holds exactly the rows of
\* the input (as many, each input row once), each with t_minus_t0 equal to
\* (time - t0) + exposure_s / 2, in non-decreasing order of t_minus_t0.
C5_OpticalRowsSorted ==
    (IsOptical /\ Succeeded) =>
        LET out == last.result[<<"optical_data">>]
            n == Len(InputTable.rows)
        IN  /\ Len(out.rows) = n
            /\ \E p \in Permutations1(n) :
                   \A i \in 1..n : \A c \in required_columns :
                       out.rows[i][c] = InputTable.rows[p[i]][c]
            /\ \A i \in 1..n :
                   2 * out.rows[i]["t_minus_t0"] =
                       2 * (out.rows[i]["time"] - last.args.t0) + out.rows[i]["exposure_s"]
            /\ \A i \in 1..(n - 1) :
                   out.rows[i]["t_minus_t0"] <= out.rows[i + 1]["t_minus_t0"]

\* C5 witness: a successful call on a two-row input whose rows are in
\* descending order of time since t0.
C5_Witness ==
    /\ IsOptical /\ Succeeded
    /\ Len(InputTable.rows) = 2
    /\ InputTable.rows[1]["time"] + InputTable.rows[1]["exposure_s"] \div 2 >
           InputTable.rows[2]["time"] + InputTable.rows[2]["exposure_s"] \div 2
    /\ last.result[<<"optical_data">>].rows[1]["mag_ab"] = InputTable.rows[2]["mag_ab"]

\* The outcome of a call on an absent file and on a file without a required
\* column.
C6_State ==
    IsOptical =>
        /\ ~InputExisted => last.err.type = "FileNotFoundError"
        /\ (InputExisted /\ ~ValidOpticalInput) =>
               /\ last.err.type = "ValueError"
               /\ last.err.names = {"time", "exposure_s", "mag_ab", "mag_err", "telescope",
                                     "filter", "lambda_eff_angstrom"}
        /\ ~ValidOpticalInput => (last.result = EmptyMap /\ last.written = <<>>)
\* A call that ends in one of the two errors leaves the file system as it was.
C6_Step ==
    (last'.op = "OpticalProcessor.process"
        /\ last'.err.type \in {"FileNotFoundError", "ValueError"}) =>
            (files' = files /\ dirs' = dirs)
\* C6: OpticalProcessor.process on an absent input file ends in
\* FileNotFoundError; on an existing file that lacks a required column it
\* ends in a ValueError naming all seven required columns; in both cases it
\* returns no table and writes no file.
C6_OpticalErrorsDistinct == []C6_State /\ [][C6_Step]_vars

\* C6 witness: a call on an existing file that lacks exactly one required
\* column, next to which no file was written.
C6_Witness ==
    /\ IsOptical /\ InputExisted
    /\ InputTable.cols = required_columns \ {"filter"}
    /\ last.err.type = "ValueError"
    /\ DOMAIN files = {last.args.input_file}

\* C7: XrayProcessor.process on a file without the MJD-OBS header field ends
\* in the epoch ValueError whatever the other arguments are, before a time
\* offset or a flux is computed; on an absent file it ends in
\* FileNotFoundError.
C7_EpochErrorFirst ==
    IsXray =>
        /\ ~InputExisted => last.err.type = "FileNotFoundError"
        /\ (InputExisted /\ "MJD-OBS" \notin DOMAIN InputTable.header) =>
               /\ last.err.type = "ValueError"
               /\ last.err.names = {"MJD-OBS"}
               /\ \A i \in DOMAIN last.log : last.log[i] \notin {"time_from_t0", "flux"}
               /\ last.written = <<>>
               /\ last.result = EmptyMap

\* C7 witness: count-rate input without a conversion factor and a spectral
\* map without an index key, on a file without MJD-OBS: the epoch error.
C7_Witness ==
    /\ IsXray /\ InputExisted
    /\ "MJD-OBS" \notin DOMAIN InputTable.header
    /\ Len(InputTable.data) = 2
    /\ last.args.is_count_rate_data
    /\ IsNone(last.args.flux_conversion_factor)
    /\ last.args.density_conversion_params = Some([E1 |-> 5, E2 |-> 20, E_obs |-> 10])
    /\ last.err.names = {"MJD-OBS"}

\* The same call made on the other flux path (is_count_rate_data negated),
\* with a conversion factor so that it does not stop for lack of one.
OtherPathRun ==
    XrayProcess(last.pre.dirs, files, last.args.fits_file, last.args.t0,
                last.args.output_dir, Some(2), ~last.args.is_count_rate_data,
                last.args.density_conversion_params)

DensityBetas ==
    LET d == last.result[<<"xray_flux_density">>]
    IN  {d.rows[i]["flux_density_mJy"].x.e_term.beta : i \in DOMAIN d.rows}

\* C9: when a spectral-parameter map is passed and the call gets as far as
\* the flux-density stage, beta is photon_index - 1 without a warning if the
\* map has photon_index; else beta is beta_X with exactly one deprecation
\* warning; and a map with neither key, a map without any key included, ends
\* the call in a configuration error and no flux-density table.
C9_SpectralIndexResolution ==
    (IsXray /\ ~IsNone(last.args.density_conversion_params) /\ last.written # <<>>) =>
        LET p == Get(last.args.density_conversion_params)
            warned == Occurrences(last.log, "warn_beta_X_deprecated")
        IN  /\ "photon_index" \in DOMAIN p =>
                   /\ Succeeded
                   /\ DensityBetas \subseteq {p["photon_index"] - 10}
                   /\ warned = 0
            /\ ("photon_index" \notin DOMAIN p /\ "beta_X" \in DOMAIN p) =>
                   /\ Succeeded
                   /\ DensityBetas \subseteq {p["beta_X"]}
                   /\ warned = 1
            /\ ("photon_index" \notin DOMAIN p /\ "beta_X" \notin DOMAIN p) =>
                   /\ last.err.type = "ValueError"
                   /\ <<"xray_flux_density">> \notin DOMAIN last.result

\* C10: a successful count-rate call returns a flux table with one row per
\* input sample, in file order, with time_from_t0_s = (MJD-OBS - MJD(t0)) *
\* 86400 + TIME, flux = RATE * factor and flux error = ERROR * factor; the
\* times are the raw TIME values when MJD-OBS is MJD(t0); the time columns of
\* the flux-density table, when there is one, are those of the flux table.
C10_CountRateFluxTable ==
    (IsXray /\ Succeeded /\ last.args.is_count_rate_data) =>
        LET flux == last.result[<<"XRT_", "flux">>]
            data == InputTable.data
            mjd_obs == InputTable.header["MJD-OBS"]
            factor == Get(last.args.flux_conversion_factor)
        IN  /\ Len(flux.rows) = Len(data)
            /\ \A i \in DOMAIN data :
                   /\ flux.rows[i]["time_from_t0_s"] =
                          (mjd_obs - 60000) * 86400 - last.args.t0 + data[i].TIME
                   /\ flux.rows[i]["time_err_s"] = data[i].TIME_ERR
                   /\ flux.rows[i]["flux_erg_cm2_s"] = factor * data[i].RATE
                   /\ flux.rows[i]["flux_err_erg_cm2_s"] = factor * data[i].ERROR
                   /\ (mjd_obs - 60000) * 86400 = last.args.t0 =>
                          flux.rows[i]["time_from_t0_s"] = data[i].TIME
            /\ <<"xray_flux_density">> \in DOMAIN last.result =>
                   LET density == last.result[<<"xray_flux_density">>]
                   IN  /\ Len(density.rows) = Len(flux.rows)
                       /\ \A i \in DOMAIN flux.rows :
                              /\ density.rows[i]["time_from_t0_s"] = flux.rows[i]["time_from_t0_s"]
                              /\ density.rows[i]["time_err_s"] = flux.rows[i]["time_err_s"]

\* C10 witness: a successful count-rate call on two samples that are not in
\* time order, shifted by one day, with a flux-density table.
C10_Witness ==
    /\ IsXray /\ Succeeded /\ last.args.is_count_rate_data
    /\ InputTable.data = <<Sample(200, 5), Sample(100, 3)>>
    /\ last.args.t0 = 0
    /\ <<"xray_flux_density">> \in DOMAIN last.result
    /\ last.result[<<"XRT_", "flux">>].rows[1]["time_from_t0_s"] = 86600
    /\ last.result[<<"XRT_", "flux">>].rows[2]["flux_erg_cm2_s"] = 6

\* C11: multi_sbpl raises the length error, and returns no value, for every
\* argument triple in which alphas has not one entry more than breakpoints or
\* deltas has not as many entries as breakpoints; the error names the
\* mis-sized list, alphas when both are mis-sized; and it raises no length
\* error when both conditions hold, zero breakpoints included.
C11_MultiSbplLengthErrors ==
    last.op = "multi_sbpl" =>
        LET nb == Len(last.args.breakpoints)
            na == Len(last.args.alphas)
            nd == Len(last.args.deltas)
        IN  /\ na # nb + 1 =>
                  /\ last.err.type = "ValueError"
                  /\ last.err.names = {"alphas"}
                  /\ IsNone(last.ret)
            /\ (na = nb + 1 /\ nd # nb) =>
                  /\ last.err.type = "ValueError"
                  /\ last.err.names = {"deltas"}
                  /\ IsNone(last.ret)
            /\ (na = nb + 1 /\ nd = nb) => last.err.names = {}
C11_Witness ==
    /\ last.op = "multi_sbpl"
    /\ Len(last.args.alphas) # Len(last.args.breakpoints) + 1
    /\ Len(last.args.deltas) # Len(last.args.breakpoints)
    /\ Len(last.args.breakpoints) = 1
    /\ last.err.names = {"alphas"}

\* C12: with one break, multi_sbpl(x, norm, [t_b], [a1, a2], [d]) gives what
\* broken_power_law(x, norm, t_b, a1, a2, d) gives: the same value.
C12_SingleBreakEquivalence ==
    (last.op = "multi_sbpl" /\ SingleBreak(last.args)) =>
        [err |-> last.err, ret |-> last.ret] =
            broken_power_law(last.args.x, last.args.norm, last.args.breakpoints[1],
                             last.args.alphas[1], last.args.alphas[2], last.args.deltas[1])

\* C13: a successful OpticalProcessor.process writes its table to a path
\* that ends in _processed.csv and differs from the path of the input file,
\* whatever the name of the input file and also when output_dir is the
\* directory of the input file.
C13_OutputPathDistinct ==
    (IsOptical /\ Succeeded) =>
        /\ Len(last.written) = 1
        /\ \A i \in DOMAIN last.written :
              /\ Dirname(last.written[i]) = last.args.output_dir
              /\ Basename(last.written[i])[Len(Basename(last.written[i]))] = "_processed.csv"
              /\ last.written[i] # last.args.input_file

\* C14: every evaluation of GenericGaussianLikelihood.log_likelihood calls
\* the model function exactly once, with the stored x and exactly the entries
\* of the parameter mapping whose key is not log_f; the scatter term uses the
\* mapping's log_f when it has one and the fixed default -10.0 otherwise; and
\* the evaluation leaves the mapping as it was.
C14_LikelihoodSplitsParameters ==
    last.op = "GenericGaussianLikelihood.log_likelihood" =>
        LET parameters == last.args.parameters IN
        /\ Len(last.log) = 1
        /\ last.log[1].step = "model_function"
        /\ last.log[1].args.x = fitter.x
        /\ DOMAIN last.log[1].args.kwargs = DOMAIN parameters \ {"log_f"}
        /\ \A k \in DOMAIN parameters \ {"log_f"} : last.log[1].args.kwargs[k] = parameters[k]
        /\ Get(last.ret).sigma2.log_f =
              (IF "log_f" \in DOMAIN parameters THEN parameters["log_f"] ELSE "-10.0")
        /\ last.result = parameters
C14_Witness ==
    /\ last.op = "GenericGaussianLikelihood.log_likelihood"
    /\ DOMAIN last.args.parameters = {"norm", "alpha", "log_f"}
    /\ last.args.parameters["log_f"] = "-2.0"
    /\ Get(last.ret).sigma2.log_f = "-2.0"
    /\ Len(fitter.x) = MaxRows

\* C15: every run of Fitter.run_fit seeds the random generator, then ensures
\* that the output directory exists, then calls the external sampler exactly
\* once with the likelihood, priors, label, outdir, sampler name and sampler
\* options it was given, and after the sampler has returned requests the
\* corner plot and returns the result; when the sampler raises, its error
\* reaches the caller, no corner plot is requested and the sampler is not
\* called again.
C15_RunFitOrder ==
    last.op = "Fitter.run_fit" =>
        LET names == StepNames(last.log)
            ensured == IF last.args.outdir \in last.pre.dirs THEN <<>> ELSE <<"makedirs">>
            sampler_call ==
                Step("run_sampler",
                     [likelihood |-> GenericGaussianLikelihood(fitter.x, fitter.y, fitter.yerr,
                                                               fitter.model_function),
                      priors |-> last.args.priors, outdir |-> last.args.outdir,
                      label |-> last.args.label, sampler |-> last.args.sampler,
                      kwargs |-> last.args.sampler_kwargs])
        IN  /\ last.args.outdir \in dirs
            /\ Occurrences(names, "run_sampler") = 1
            /\ last.log[Len(<<"seed">> \o ensured) + 1] = sampler_call
            /\ IF last.args.sampler_outcome.raised
               THEN /\ names = <<"seed">> \o ensured \o <<"run_sampler">>
                    /\ last.err = SamplerError
                    /\ IsNone(last.ret)
               ELSE /\ names = <<"seed">> \o ensured \o <<"run_sampler", "plot_corner">>
                    /\ last.err = NoError
                    /\ last.ret = Some(last.args.sampler_outcome)

\* The band integrals the flux-density table of the last call was computed
\* with, one per row.
DensityIntegrals ==
    LET d == last.result[<<"xray_flux_density">>]
    IN  {d.rows[i]["flux_density_mJy"].x.integral : i \in DOMAIN d.rows}

\* C16: the band integral of a flux-density table is ln(E2/E1) when beta is
\* exactly 1 (photon_index 2) and (E2^(1-beta) - E1^(1-beta)) / (1-beta) for
\* every other beta, however close to 1, and the divisor 1-beta is not zero
\* whenever the second formula is used.
C16_IntegralSwitchAtOne ==
    (IsXray /\ Succeeded /\ <<"xray_flux_density">> \in DOMAIN last.result) =>
        LET p == Get(last.args.density_conversion_params)
            beta == IF "photon_index" \in DOMAIN p THEN p["photon_index"] - 10 ELSE p["beta_X"]
        IN  \A integral \in DensityIntegrals :
                IF beta = 10
                THEN integral.fn = "log(e2/e1)"
                ELSE /\ integral.fn = "(e2^p-e1^p)/d"
                     /\ integral.p = 10 - beta
                     /\ integral.d = 10 - beta
                     /\ integral.d # 0
C16_Witness ==
    /\ IsXray /\ Succeeded /\ <<"xray_flux_density">> \in DOMAIN last.result
    /\ Get(last.args.density_conversion_params) = [beta_X |-> 11, sigma_beta_X |-> 1]
    /\ \E integral \in DensityIntegrals : integral.fn = "(e2^p-e1^p)/d" /\ integral.d = -1

\* C17: GRBEvent.process_xray_data only adds or replaces entries of the
\* container.  A call in which the processor raises leaves lightcurves as it
\* was, without creating the xray band; a successful call sets
\* lightcurves['xray'][k] for every key k the processor returned and leaves
\* every other band and every other name untouched, so a flux-density table
\* stored by an earlier call is still there after a call made without
\* spectral parameters.  GRBEvent.get_lightcurve leaves the container as it
\* was and returns None for an unknown band or name.
C17_XrayStoreFrame ==
    LET before == last.pre.lightcurves
        after == event.lightcurves
        xray_before == DictGet(before, "xray", EmptyMap)
    IN  /\ (last.op = "GRBEvent.process_xray_data" /\ ~Succeeded) => after = before
        /\ (last.op = "GRBEvent.process_xray_data" /\ Succeeded) =>
              /\ DOMAIN after = DOMAIN before \cup {"xray"}
              /\ \A band \in DOMAIN before \ {"xray"} : after[band] = before[band]
              /\ DOMAIN after["xray"] = DOMAIN xray_before \cup DOMAIN last.result
              /\ \A k \in DOMAIN last.result : after["xray"][k] = last.result[k]
              /\ \A k \in DOMAIN xray_before \ DOMAIN last.result :
                    after["xray"][k] = xray_before[k]
        /\ last.op = "GRBEvent.get_lightcurve" =>
              /\ after = before
              /\ IF last.args.band \in DOMAIN before
                    /\ last.args.name \in DOMAIN before[last.args.band]
                 THEN last.ret = Some(before[last.args.band][last.args.name])
                 ELSE IsNone(last.ret)
C17_Witness ==
    /\ last.op = "GRBEvent.process_xray_data"
    /\ Succeeded
    /\ IsNone(last.args.density_conversion_params)
    /\ "xray" \in DOMAIN last.pre.lightcurves
    /\ <<"xray_flux_density">> \in DOMAIN last.pre.lightcurves["xray"]
    /\ <<"xray_flux_density">> \notin DOMAIN last.result
    /\ get_lightcurve(event, "xray", <<"xray_flux_density">>) =
          Some(last.pre.lightcurves["xray"][<<"xray_flux_density">>])

====
